---- MODULE Spec2Model ----
(***************************************************************************)
(* Model of the local model lifecycle manager of the OET Python AI engine  *)
(* (app/models/llm_manager.py, class LLMManager): the three resident       *)
(* tables, the asyncio.Lock that guards load/unload, the LRU cleanup, and  *)
(* the generation and embedding paths.                                     *)
(*                                                                         *)
(* The manager runs on one asyncio event loop: a coroutine runs without    *)
(* interruption until it awaits something that really suspends (a busy     *)
(* lock, the thread-pool future of a loader).  Each action below is one    *)
(* such uninterrupted stretch of a coroutine.                              *)
(***************************************************************************)
EXTENDS Integers, Sequences, FiniteSets, TLC

\* ------------------------------------------------------------------ bounds
NumTasks == 2
MaxTime == 1
MaxLoads == 3
MaxUses == 1
MaxTokens == 2

\* ------------------------------------------------------- program constants
MemoryFloorGB == 2
StopWindow == 20
ExecutorWorkers == 2

Tasks == 1..NumTasks
Names == {"A", "B", "C"}
NoName == "-"
DEFAULT_LLM_MODEL == "A"
DEFAULT_MEDICAL_MODEL == "B"
ModelType == {"llm", "medical_nlp", "embedding", "classifier", "custom"}
\* the categories a call is issued with in this model: both loader branches
\* and the unsupported branch of _load_model_by_type
CallTypes == {"llm", "embedding", "custom"}
\* values psutil may report for available memory, in GB: one on each side of the floor
AvailGB == {1, 3}

VARIABLES
    loaded_models,   \* self.loaded_models: insertion-ordered dict name -> model handle
    tokenizers,      \* self.tokenizers:    insertion-ordered dict name -> tokenizer
    model_info,      \* self.model_info:    insertion-ordered dict name -> ModelInfo
    model_lock,      \* self.model_lock: TRUE iff the asyncio.Lock is locked
    now,             \* the clock read by time.time()
    loader_calls,    \* how many loader jobs were handed to the executor so far
    pc,              \* per task: where its coroutine is suspended
    call,            \* per task: the arguments and locals of its current call
    returned,        \* the call that returned or raised in the step just taken, and with what
    last_used_hist   \* history: per name, the last_used most recently recorded for it

vars == <<loaded_models, tokenizers, model_info, model_lock, now, loader_calls,
          pc, call, returned, last_used_hist>>

\* ---------------------------------------------- Python dicts (insertion ordered)
Keys(d) == {d[i][1] : i \in DOMAIN d}

Get(d, k) == d[CHOOSE i \in DOMAIN d : d[i][1] = k][2]

\* (mutant of DictSet: the entry is added without looking for the key)
DictSetAppends(d, k, v) == Append(d, <<k, v>>)

\* d[k] = v: an existing key keeps its place, a new key goes last
DictSet(d, k, v) ==
    IF k \in Keys(d)
    THEN [i \in DOMAIN d |-> IF d[i][1] = k THEN <<k, v>> ELSE d[i]]
    ELSE Append(d, <<k, v>>)

\* del d[k]
DictDel(d, k) == SelectSeq(d, LAMBDA e : e[1] # k)

\* ------------------------------------------------------------ data types
\* (mutant of ModelInfo: last_used starts at zero instead of the load's time)
ModelInfoZeroTime(ty, t) == [model_type |-> ty, last_used |-> 0, use_count |-> 0]

\* ModelInfo, the fields an operation of the manager reads or writes
ModelInfo(ty, t) == [model_type |-> ty, last_used |-> t, use_count |-> 0]

NoResult == [kind |-> "none"]
BoolResult(b) == [kind |-> "bool", value |-> b]

\* GenerationRequest, the fields generate_text reads
NoRequest == [prompt |-> <<>>, model_name |-> NoName, max_tokens |-> 1, stop_sequences |-> {}]

NoCall == [op |-> "none", name |-> NoName, model_type |-> "llm", force_reload |-> FALSE,
           low_memory |-> FALSE, victim |-> NoName, handle |-> 0, loaded |-> FALSE,
           request |-> NoRequest, model_names |-> <<>>]

\* no call returned in the step just taken
NoReturn == [task |-> 0, call |-> NoCall, result |-> NoResult]

\* ---------------------------------------------------------------- helpers
\* a task is suspended inside an `async with self.model_lock` body: at the loader's
\* future, or at the unload_model that load_model's own cleanup called
Holding(t) ==
    \/ pc[t] \in {"load_exec", "load_store"}
    \/ pc[t] = "unload_lock" /\ call[t].op # "unload"

\* (mutant of Oldest: among the entries with the least last_used the last one wins)
OldestLastOnTie(mi) ==
    LET least(i) == \A j \in DOMAIN mi : mi[i][2].last_used <= mi[j][2].last_used
        last == CHOOSE i \in DOMAIN mi : least(i) /\ \A j \in DOMAIN mi : least(j) => j <= i
    IN  mi[last][1]

\* sorted(self.model_info.items(), key=last_used)[0][0]: the sort is stable, so
\* among the entries with the least last_used the first in dict order wins
Oldest(mi) ==
    LET least(i) == \A j \in DOMAIN mi : mi[i][2].last_used <= mi[j][2].last_used
        first == CHOOSE i \in DOMAIN mi : least(i) /\ \A j \in DOMAIN mi : least(j) => i <= j
    IN  mi[first][1]

\* (mutant of CleanupSkips: only an empty table is skipped)
CleanupSkipsEmptyOnly(mi) == Len(mi) < 1

\* len(self.model_info) <= 1: return   (the early return of _cleanup_unused_models)
CleanupSkips(mi) == Len(mi) <= 1

Supported(ty) == ty \in {"llm", "medical_nlp", "embedding"}

Init ==
    /\ loaded_models = <<>>
    /\ tokenizers = <<>>
    /\ model_info = <<>>
    /\ model_lock = FALSE
    /\ now = 0
    /\ loader_calls = 0
    /\ pc = [t \in Tasks |-> "idle"]
    /\ call = [t \in Tasks |-> NoCall]
    /\ returned = NoReturn
    /\ last_used_hist = [n \in Names |-> 0]

\* ------------------------------------------------- tokenizer and decode loop
EosToken == "</s>"
Vocab == {"a", "b", EosToken}

\* tokenizer.encode(prompt): one token per character, no special token added
Encode(text) == text

\* tokenizer.decode(ids, skip_special_tokens=skip): the text as a sequence of characters
RECURSIVE Decode(_, _)
Decode(ids, skip) ==
    IF ids = <<>> THEN <<>>
    ELSE (IF Head(ids) = EosToken
          THEN (IF skip THEN <<>> ELSE <<"<", "/", "s", ">">>)
          ELSE <<Head(ids)>>) \o Decode(Tail(ids), skip)

\* Python's `s in text`
Contains(text, s) ==
    \E i \in 0..(Len(text) - Len(s)) : SubSeq(text, i + 1, i + Len(s)) = s

\* (mutant of LastTokens: the criteria look at no token at all)
LastTokensNone(ids) == <<>>

\* input_ids[0][-20:]
LastTokens(ids) ==
    IF Len(ids) <= StopWindow THEN ids ELSE SubSeq(ids, Len(ids) - StopWindow + 1, Len(ids))

\* CustomStoppingCriteria.__call__
CustomStoppingCriteria(stop_sequences, input_ids) ==
    \E s \in stop_sequences : Contains(Decode(LastTokens(input_ids), FALSE), s)

\* the stopping_criteria entry of generation_kwargs: present only for a non-empty list
StoppingCriteriaHit(stop_sequences, input_ids) ==
    stop_sequences # {} /\ CustomStoppingCriteria(stop_sequences, input_ids)

TokenSeqs(n) == UNION {[1..k -> Vocab] : k \in 1..n}

\* model.generate(inputs, max_new_tokens=n, stopping_criteria=..., pad_token_id=eos):
\* the decode loop appends one token at a time and stops after the first token that
\* is the end-of-sequence token, reaches max_new_tokens or satisfies the stopping
\* criteria (which see the prompt and the new tokens alike).  The result is the
\* set of new-token sequences the loop can end with.
ModelGenerate(inputs, n, stop_sequences) ==
    LET stopped(g) == \/ g[Len(g)] = EosToken
                      \/ Len(g) >= n
                      \/ StoppingCriteriaHit(stop_sequences, inputs \o g)
    IN  {g \in TokenSeqs(n) :
            /\ stopped(g)
            /\ \A k \in 1..(Len(g) - 1) : ~stopped(SubSeq(g, 1, k))}

\* (mutant of FinishReason: always "length")
FinishReasonLength(tokens_generated, max_tokens) == "length"

\* (mutant of FinishReason: "length" only beyond max_tokens)
FinishReasonBeyond(tokens_generated, max_tokens) ==
    IF tokens_generated > max_tokens THEN "length" ELSE "stop"

\* "length" if tokens_generated >= request.max_tokens else "stop"
FinishReason(tokens_generated, max_tokens) ==
    IF tokens_generated >= max_tokens THEN "length" ELSE "stop"

\* (mutant of GenerationResponse: model_used is the default model's name)
GenerationResponseDefault(name, handle, request, g) ==
    [kind |-> "response",
     text |-> Decode(g, TRUE),
     generated_tokens |-> g,
     model_used |-> DEFAULT_LLM_MODEL,
     handle |-> handle,
     tokens_generated |-> Len(g),
     prompt_tokens |-> Len(Encode(request.prompt)),
     total_tokens |-> Len(Encode(request.prompt)) + Len(g),
     finish_reason |-> FinishReason(Len(g), request.max_tokens)]

\* GenerationResponse for the generated tokens g; generated_tokens is the local of
\* that name in generate_text, kept with the response for the properties
GenerationResponse(name, handle, request, g) ==
    LET prompt_tokens == Len(Encode(request.prompt))
        total_tokens == prompt_tokens + Len(g)
        tokens_generated == total_tokens - prompt_tokens
    IN  [kind |-> "response",
         text |-> Decode(g, TRUE),
         generated_tokens |-> g,
         model_used |-> name,
         handle |-> handle,
         tokens_generated |-> tokens_generated,
         prompt_tokens |-> prompt_tokens,
         total_tokens |-> total_tokens,
         finish_reason |-> FinishReason(tokens_generated, request.max_tokens)]

ErrorResult(what) == [kind |-> "error", error |-> what]

\* -------------------------------------------------------------- transitions
Hist(mi) ==
    [n \in Names |-> IF n \in Keys(mi) THEN Get(mi, n).last_used ELSE last_used_hist[n]]

\* the tables as an action leaves them
Commit(lm, tk, mi) ==
    /\ loaded_models' = lm
    /\ tokenizers' = tk
    /\ model_info' = mi
    /\ last_used_hist' = Hist(mi)

\* the call c of task t returns (or raises) r
Finish(t, c, r) ==
    /\ pc' = [pc EXCEPT ![t] = "idle"]
    /\ call' = [call EXCEPT ![t] = NoCall]
    /\ returned' = [task |-> t, call |-> c, result |-> r]
    /\ UNCHANGED <<now, loader_calls>>

\* (mutant of TouchLastUsed: the already-loaded path forgets the refresh)
TouchNothing(mi, n) == mi

\* self.model_info[name].last_used = time.time()
TouchLastUsed(mi, n) == DictSet(mi, n, [Get(mi, n) EXCEPT !.last_used = now])

\* self.model_info[name].last_used = time.time(); self.model_info[name].use_count += 1
BumpUsage(mi, n) ==
    DictSet(mi, n, [Get(mi, n) EXCEPT !.last_used = now, !.use_count = @ + 1])

\* (mutant of GenerateBody: the model is unloaded while the generation uses it)
GenerateBodyRacy(t, c, lm, tk, mi) ==
    /\ Commit(DictDel(lm, c.name), DictDel(tk, c.name), DictDel(mi, c.name))
    /\ \/ Finish(t, c, ErrorResult("generation"))
       \/ /\ Get(lm, c.name).kind = "causal"
          /\ \E g \in ModelGenerate(Encode(c.request.prompt), c.request.max_tokens,
                                     c.request.stop_sequences) :
                Finish(t, c, GenerationResponse(c.name, Get(lm, c.name).handle, c.request, g))

\* generate_text from `model = self.loaded_models[model_name]` to its return or raise:
\* no await in between, so one step.  The tables are those the caller hands over.
GenerateBody(t, c, lm, tk, mi) ==
    LET n == c.name
        request == c.request
        model == Get(lm, n)
        inputs == Encode(request.prompt)
    IN  /\ Commit(lm, tk, BumpUsage(mi, n))
        /\ \/ Finish(t, c, ErrorResult("generation"))
           \/ /\ model.kind = "causal"
              /\ \E g \in ModelGenerate(inputs, request.max_tokens, request.stop_sequences) :
                    Finish(t, c, GenerationResponse(n, model.handle, request, g))

\* get_embedding from `model = self.loaded_models[model_name]` to its return or raise
EmbedBody(t, c, lm, tk, mi) ==
    LET n == c.name
        model == Get(lm, n)
    IN  /\ Commit(lm, tk, mi)
        /\ \/ Finish(t, c, ErrorResult("embedding"))
           \/ /\ model.kind = "bert"
              /\ Finish(t, c, [kind |-> "vector", model_used |-> n, handle |-> model.handle])

\* (mutant of LoadReturn: generate_text and get_embedding answer nothing, instead of
\* raising, when the load they asked for returns false)
LoadReturnSwallows(t, c, ok, lm, tk, mi) ==
    /\ model_lock' = FALSE
    /\ CASE c.op = "load" -> Commit(lm, tk, mi) /\ Finish(t, c, BoolResult(ok))
         [] c.op = "generate" ->
              IF ok THEN GenerateBody(t, c, lm, tk, mi)
              ELSE Commit(lm, tk, mi) /\ Finish(t, c, NoResult)
         [] OTHER ->
              IF ok THEN EmbedBody(t, c, lm, tk, mi)
              ELSE Commit(lm, tk, mi) /\ Finish(t, c, NoResult)

\* load_model returns `ok` to whoever called it, the lock released on the way out
LoadReturn(t, c, ok, lm, tk, mi) ==
    /\ model_lock' = FALSE
    /\ CASE c.op = "load" -> Commit(lm, tk, mi) /\ Finish(t, c, BoolResult(ok))
         [] c.op = "generate" ->
              IF ok THEN GenerateBody(t, c, lm, tk, mi)
              ELSE Commit(lm, tk, mi) /\ Finish(t, c, ErrorResult("load"))
         [] OTHER ->
              IF ok THEN EmbedBody(t, c, lm, tk, mi)
              ELSE Commit(lm, tk, mi) /\ Finish(t, c, ErrorResult("load"))

\* cleanup has run self.executor.shutdown(wait=True): the task that called it is done
ExecutorShutdown == \E u \in Tasks : pc[u] = "cleaned"

\* (mutant of LoadModelByType: a reload drops the resident entry before it loads)
LoadModelByTypeDropsOld(t, c, lm, tk, mi) ==
    IF Supported(c.model_type)
    THEN /\ loader_calls' = loader_calls + 1
         /\ call' = [call EXCEPT ![t] = [c EXCEPT !.handle = loader_calls + 1]]
         /\ pc' = [pc EXCEPT ![t] = "load_exec"]
         /\ model_lock' = TRUE
         /\ Commit(DictDel(lm, c.name), DictDel(tk, c.name), DictDel(mi, c.name))
         /\ UNCHANGED now
         /\ returned' = NoReturn
    ELSE LoadReturn(t, c, FALSE, lm, tk, mi)

\* _load_model_by_type: hand the category's loader to the executor, or, for a
\* category without a loader, catch the ValueError and give load_model (None, None);
\* so too the RuntimeError of run_in_executor on an executor that was shut down
LoadModelByType(t, c, lm, tk, mi) ==
    IF Supported(c.model_type) /\ ~ExecutorShutdown
    THEN /\ loader_calls' = loader_calls + 1
         /\ call' = [call EXCEPT ![t] = [c EXCEPT !.handle = loader_calls + 1]]
         /\ pc' = [pc EXCEPT ![t] = "load_exec"]
         /\ model_lock' = TRUE
         /\ Commit(lm, tk, mi)
         /\ UNCHANGED now
         /\ returned' = NoReturn
    ELSE LoadReturn(t, c, FALSE, lm, tk, mi)

\* (mutant of LoadBody: no check whether the model is loaded already)
LoadBodyAlwaysLoads(t, c) ==
    \E available_memory \in AvailGB :
        LET low == available_memory < MemoryFloorGB IN
        IF low /\ ~CleanupSkips(model_info)
        THEN /\ call' = [call EXCEPT ![t] = [c EXCEPT !.low_memory = low,
                                                      !.victim = Oldest(model_info)]]
             /\ pc' = [pc EXCEPT ![t] = "unload_lock"]
             /\ model_lock' = TRUE
             /\ returned' = NoReturn
             /\ UNCHANGED <<loaded_models, tokenizers, model_info, last_used_hist,
                            now, loader_calls>>
        ELSE LoadModelByType(t, [c EXCEPT !.low_memory = low],
                             loaded_models, tokenizers, model_info)

\* (mutant of LoadBody: with memory low the cleanup removes the two oldest models
\* itself, under the lock load_model holds, and the load goes on to the loader)
LoadBodyDrains(t, c) ==
    LET n == c.name
        first == Oldest(model_info)
        second == Oldest(DictDel(model_info, first))
        drained(d) == DictDel(DictDel(d, first), second)
    IN
    IF n \in Keys(loaded_models) /\ ~c.force_reload
    THEN LoadReturn(t, c, TRUE, loaded_models, tokenizers, TouchLastUsed(model_info, n))
    ELSE \E available_memory \in AvailGB :
           LET low == available_memory < MemoryFloorGB IN
           IF low /\ ~CleanupSkips(model_info)
           THEN LoadModelByType(t, [c EXCEPT !.low_memory = low, !.victim = first],
                                drained(loaded_models), drained(tokenizers),
                                drained(model_info))
           ELSE LoadModelByType(t, [c EXCEPT !.low_memory = low],
                                loaded_models, tokenizers, model_info)

\* load_model from the acquisition of the lock to its first real suspension
LoadBody(t, c) ==
    LET n == c.name IN
    IF n \in Keys(loaded_models) /\ ~c.force_reload
    THEN IF n \in Keys(model_info)
         THEN LoadReturn(t, c, TRUE, loaded_models, tokenizers, TouchLastUsed(model_info, n))
         ELSE LoadReturn(t, c, FALSE, loaded_models, tokenizers, model_info)
    ELSE \E available_memory \in AvailGB :
           LET low == available_memory < MemoryFloorGB IN
           IF low /\ ~CleanupSkips(model_info)
           THEN \* _cleanup_unused_models calls unload_model, which waits for the lock
                /\ call' = [call EXCEPT ![t] = [c EXCEPT !.low_memory = low,
                                                         !.victim = Oldest(model_info)]]
                /\ pc' = [pc EXCEPT ![t] = "unload_lock"]
                /\ model_lock' = TRUE
                /\ returned' = NoReturn
                /\ UNCHANGED <<loaded_models, tokenizers, model_info, last_used_hist,
                               now, loader_calls>>
           ELSE LoadModelByType(t, [c EXCEPT !.low_memory = low],
                                loaded_models, tokenizers, model_info)

\* a load_model that waited at `async with self.model_lock` gets the lock
LoadAcquire(t) ==
    /\ pc[t] = "load_lock"
    /\ ~model_lock
    /\ LoadBody(t, call[t])

\* the loader job in its executor thread: from_pretrained succeeds, or raises
LoaderThread(t) ==
    /\ pc[t] = "load_exec"
    /\ Cardinality({u \in Tasks : pc[u] = "load_exec"}) <= ExecutorWorkers
    /\ \E ok \in BOOLEAN : call' = [call EXCEPT ![t].loaded = ok]
    /\ pc' = [pc EXCEPT ![t] = "load_store"]
    /\ UNCHANGED <<loaded_models, tokenizers, model_info, last_used_hist, model_lock,
                   now, loader_calls>>
    /\ returned' = NoReturn

ModelKind(ty) == IF ty = "llm" THEN "causal" ELSE "bert"

\* (mutant of LoadResume: a failed loader job is tried again)
LoadResumeRetries(t) ==
    /\ pc[t] = "load_store"
    /\ IF ~call[t].loaded
       THEN IF loader_calls < MaxLoads
            THEN /\ loader_calls' = loader_calls + 1
                 /\ call' = [call EXCEPT ![t].handle = loader_calls + 1]
                 /\ pc' = [pc EXCEPT ![t] = "load_exec"]
                 /\ returned' = NoReturn
                 /\ UNCHANGED <<loaded_models, tokenizers, model_info, last_used_hist,
                                model_lock, now>>
            ELSE LoadReturn(t, call[t], FALSE, loaded_models, tokenizers, model_info)
       ELSE LoadReturn(t, call[t], TRUE,
                       DictSet(loaded_models, call[t].name,
                               [handle |-> call[t].handle, kind |-> ModelKind(call[t].model_type)]),
                       DictSet(tokenizers, call[t].name,
                               [handle |-> call[t].handle, kind |-> ModelKind(call[t].model_type)]),
                       DictSet(model_info, call[t].name, ModelInfo(call[t].model_type, now)))

\* (mutant of LoadResume: the loader's result is stored before it is looked at)
LoadResumeStoresFirst(t) ==
    /\ pc[t] = "load_store"
    /\ LoadReturn(t, call[t], call[t].loaded,
                  DictSet(loaded_models, call[t].name,
                          [handle |-> call[t].handle, kind |-> ModelKind(call[t].model_type)]),
                  DictSet(tokenizers, call[t].name,
                          [handle |-> call[t].handle, kind |-> ModelKind(call[t].model_type)]),
                  DictSet(model_info, call[t].name, ModelInfo(call[t].model_type, now)))

\* load_model resumed with the loader's result: `if model is None` to the return
LoadResume(t) ==
    /\ pc[t] = "load_store"
    /\ LET n == call[t].name
           model == [handle |-> call[t].handle, kind |-> ModelKind(call[t].model_type)]
       IN  IF ~call[t].loaded
           THEN LoadReturn(t, call[t], FALSE, loaded_models, tokenizers, model_info)
           ELSE LoadReturn(t, call[t], TRUE,
                           DictSet(loaded_models, n, model),
                           DictSet(tokenizers, n, model),
                           DictSet(model_info, n, ModelInfo(call[t].model_type, now)))

\* unload_model returns `ok`: to the caller of the API, or into _cleanup_unused_models
\* and from there back into load_model, which goes on to the loader
UnloadReturn(t, c, ok, lm, tk, mi) ==
    IF c.op = "unload"
    THEN /\ model_lock' = FALSE
         /\ Commit(lm, tk, mi)
         /\ Finish(t, c, BoolResult(ok))
    ELSE LoadModelByType(t, c, lm, tk, mi)

\* the name an unload_model call was given: by the API, or by _cleanup_unused_models
UnloadTarget(c) == IF c.op = "unload" THEN c.name ELSE c.victim

\* (mutant of UnloadBody: no check that the name is loaded)
UnloadBodyUnchecked(t, c) ==
    UnloadReturn(t, c, TRUE, DictDel(loaded_models, UnloadTarget(c)),
                 DictDel(tokenizers, UnloadTarget(c)), DictDel(model_info, UnloadTarget(c)))

\* (mutant of UnloadBody: the ModelInfo of the unloaded model is left behind)
UnloadBodyKeepsInfo(t, c) ==
    LET n == UnloadTarget(c) IN
    IF n \notin Keys(loaded_models)
    THEN UnloadReturn(t, c, FALSE, loaded_models, tokenizers, model_info)
    ELSE UnloadReturn(t, c, TRUE, DictDel(loaded_models, n), DictDel(tokenizers, n),
                      model_info)

\* unload_model from the acquisition of the lock to its return: no await in between
UnloadBody(t, c) ==
    LET n == UnloadTarget(c) IN
    IF n \notin Keys(loaded_models)
    THEN UnloadReturn(t, c, FALSE, loaded_models, tokenizers, model_info)
    ELSE UnloadReturn(t, c, TRUE, DictDel(loaded_models, n), DictDel(tokenizers, n),
                      DictDel(model_info, n))

\* an unload_model that waited at `async with self.model_lock` gets the lock
UnloadAcquire(t) ==
    /\ pc[t] = "unload_lock"
    /\ ~model_lock
    /\ UnloadBody(t, call[t])

\* ------------------------------------------------------- calls from outside
\* `async with self.model_lock` with the lock taken: the call waits
Wait(t, c, at) ==
    /\ call' = [call EXCEPT ![t] = c]
    /\ pc' = [pc EXCEPT ![t] = at]
    /\ returned' = NoReturn
    /\ UNCHANGED <<loaded_models, tokenizers, model_info, last_used_hist, model_lock,
                   now, loader_calls>>

\* The model's bounds are kept by the callers, when a call is issued, so that no
\* call under way ever stops at a bound: a call that may reach the loader is issued
\* only while loader jobs remain for it and for the loads already under way,
LoadBudget ==
    loader_calls + Cardinality({u \in Tasks : \/ pc[u] = "load_lock"
                                              \/ pc[u] = "unload_lock" /\ call[u].op # "unload"})
        < MaxLoads

\* and a generation for n only while n's use_count can still be counted up.
UseBudget(n) ==
    (IF n \in Keys(model_info) THEN Get(model_info, n).use_count ELSE 0)
      + Cardinality({u \in Tasks : pc[u] # "idle" /\ call[u].op = "generate" /\ call[u].name = n})
        < MaxUses

\* (mutant of EnterLoad: load_model without the `async with self.model_lock`)
EnterLoadUnguarded(t, c) == LoadBudget /\ LoadBody(t, c)

\* load_model entered: a free lock is taken without suspending
EnterLoad(t, c) ==
    /\ LoadBudget
    /\ IF model_lock THEN Wait(t, c, "load_lock") ELSE LoadBody(t, c)

\* await llm_manager.load_model(model_name, model_type, force_reload)
CallLoad(t, n, ty, force) ==
    /\ pc[t] = "idle"
    /\ EnterLoad(t, [NoCall EXCEPT !.op = "load", !.name = n, !.model_type = ty,
                                   !.force_reload = force])

\* await llm_manager.unload_model(model_name)
CallUnload(t, n) ==
    /\ pc[t] = "idle"
    /\ LET c == [NoCall EXCEPT !.op = "unload", !.name = n] IN
       IF model_lock THEN Wait(t, c, "unload_lock") ELSE UnloadBody(t, c)

\* (mutant of CallGenerate: generate_text goes through the lock for a resident model too)
CallGenerateGuarded(t, request) ==
    LET n == IF request.model_name # NoName THEN request.model_name ELSE DEFAULT_LLM_MODEL
        c == [NoCall EXCEPT !.op = "generate", !.name = n, !.model_type = "llm",
                            !.request = request]
    IN  /\ pc[t] = "idle"
        /\ UseBudget(n)
        /\ IF model_lock THEN Wait(t, c, "load_lock") ELSE LoadBody(t, c)

\* await llm_manager.generate_text(request): resident -> the body at once, else load first
CallGenerate(t, request) ==
    LET n == IF request.model_name # NoName THEN request.model_name ELSE DEFAULT_LLM_MODEL
        c == [NoCall EXCEPT !.op = "generate", !.name = n, !.model_type = "llm",
                            !.request = request]
    IN  /\ pc[t] = "idle"
        /\ UseBudget(n)
        /\ IF n \notin Keys(loaded_models)
           THEN EnterLoad(t, c)
           ELSE GenerateBody(t, c, loaded_models, tokenizers, model_info)
                /\ UNCHANGED model_lock

\* await llm_manager.get_embedding(text, model_name)
CallEmbed(t, name) ==
    LET n == IF name # NoName THEN name ELSE DEFAULT_MEDICAL_MODEL
        c == [NoCall EXCEPT !.op = "embed", !.name = n, !.model_type = "embedding"]
    IN  /\ pc[t] = "idle"
        /\ IF n \notin Keys(loaded_models)
           THEN EnterLoad(t, c)
           ELSE EmbedBody(t, c, loaded_models, tokenizers, model_info)
                /\ UNCHANGED model_lock

\* the dict d without the keys in names
RECURSIVE DelAll(_, _)
DelAll(d, names) ==
    IF names = <<>> THEN d ELSE DelAll(DictDel(d, Head(names)), Tail(names))

\* cleanup from its loop over model_names on.  An unload_model that finds the lock taken
\* waits; with the lock free every unload_model left runs at once, one after the other,
\* and then executor.shutdown(wait=True) blocks the event loop until the loader job in
\* the executor, if there is one, has come to its end.
CleanupLoop(t, c) ==
    IF c.model_names # <<>> /\ model_lock
    THEN Wait(t, c, "cleanup_lock")
    ELSE /\ Commit(DelAll(loaded_models, c.model_names), DelAll(tokenizers, c.model_names),
                   DelAll(model_info, c.model_names))
         /\ \E ok \in BOOLEAN :
               /\ pc' = [u \in Tasks |->
                           IF u = t THEN "cleaned"
                           ELSE IF pc[u] = "load_exec" THEN "load_store" ELSE pc[u]]
               /\ call' = [u \in Tasks |->
                             IF u = t THEN NoCall
                             ELSE IF pc[u] = "load_exec" THEN [call[u] EXCEPT !.loaded = ok]
                             ELSE call[u]]
         /\ returned' = [task |-> t, call |-> c, result |-> NoResult]
         /\ UNCHANGED <<model_lock, now, loader_calls>>

\* await llm_manager.cleanup(): model_names = list(self.loaded_models.keys())
CallCleanup(t) ==
    /\ pc[t] = "idle"
    /\ CleanupLoop(t, [NoCall EXCEPT !.op = "cleanup",
                                     !.model_names = [i \in DOMAIN loaded_models |->
                                                        loaded_models[i][1]]])

\* an unload_model of cleanup that waited at `async with self.model_lock` gets the lock
CleanupAcquire(t) ==
    /\ pc[t] = "cleanup_lock"
    /\ CleanupLoop(t, call[t])

\* get_loaded_models_info: the names of self.model_info, in dict order
get_loaded_models_info == [i \in DOMAIN model_info |-> model_info[i][1]]

\* get_models_status
get_models_status ==
    [kind |-> "status", loaded_models |-> get_loaded_models_info,
     total_models |-> Len(get_loaded_models_info)]

\* await llm_manager.get_models_status()
CallStatus(t) ==
    /\ pc[t] = "idle"
    /\ Finish(t, [NoCall EXCEPT !.op = "status"], get_models_status)
    /\ UNCHANGED <<loaded_models, tokenizers, model_info, last_used_hist, model_lock>>

\* the try block of the endpoint DELETE /models/{model_name}: the message, or the
\* HTTPException it raises when unload_model returned False
UnloadEndpointTry(success) ==
    IF success THEN [kind |-> "return", status |-> 200]
    ELSE [kind |-> "raise", exception |-> "HTTPException", status |-> 404]

\* the endpoint: `except Exception` catches what the try block raises, HTTPException
\* included (it is a subclass of Exception), and raises HTTPException(500) in its place
UnloadEndpoint(success) ==
    LET tried == UnloadEndpointTry(success) IN
    IF tried.kind = "raise"
    THEN [kind |-> "raise", exception |-> "HTTPException", status |-> 500]
    ELSE tried

\* the clock advances
Tick ==
    /\ now < MaxTime
    /\ now' = now + 1
    /\ UNCHANGED <<loaded_models, tokenizers, model_info, last_used_hist, model_lock,
                   loader_calls, pc, call>>
    /\ returned' = NoReturn

\* the requests issued where the lifecycle, not the decode loop, is under study
LifecycleRequests ==
    {[prompt |-> <<"a">>, model_name |-> n, max_tokens |-> 1, stop_sequences |-> {}] :
        n \in Names \cup {NoName}}

\* Concurrent callers.  Loads are issued for the category with a causal-LM loader,
\* generation for the default model and for one named model, embedding for the default.
Next ==
    \/ Tick
    \/ \E t \in Tasks, n \in Names, force \in BOOLEAN : CallLoad(t, n, "llm", force)
    \/ \E t \in Tasks, n \in Names : CallUnload(t, n)
    \/ \E t \in Tasks, request \in LifecycleRequests :
          request.model_name \in {NoName, "B"} /\ CallGenerate(t, request)
    \/ \E t \in Tasks : CallEmbed(t, NoName)
    \/ \E t \in Tasks : LoadAcquire(t)
    \/ \E t \in Tasks : LoaderThread(t)
    \/ \E t \in Tasks : LoadResume(t)
    \/ \E t \in Tasks : UnloadAcquire(t)

Spec == Init /\ [][Next]_vars

\* The event loop runs every coroutine that can run: a finished loader job is picked
\* up, a resumed load_model runs on, and asyncio.Lock wakes its waiters in turn, so a
\* waiter gets the lock if the lock keeps coming free.  Nothing obliges callers to call.
Fairness ==
    \A t \in Tasks :
        /\ WF_vars(LoaderThread(t))
        /\ WF_vars(LoadResume(t))
        /\ SF_vars(LoadAcquire(t))
        /\ SF_vars(UnloadAcquire(t))

FairSpec == Spec /\ Fairness

\* One caller that issues one call after the other, with every argument.
NextSeq ==
    \/ Tick
    \/ \E n \in Names, ty \in CallTypes, force \in BOOLEAN : CallLoad(1, n, ty, force)
    \/ \E n \in Names : CallUnload(1, n)
    \/ \E request \in LifecycleRequests : CallGenerate(1, request)
    \/ \E n \in Names \cup {NoName} : CallEmbed(1, n)
    \/ CallStatus(1)
    \/ LoaderThread(1)
    \/ LoadResume(1)

SpecSeq == Init /\ [][NextSeq]_vars

\* The scenario Load("A"), then Load("B") with memory found low, then Status(): one
\* caller, the first load into the empty table, the second once "A" is resident.
NextScenario ==
    \/ Tick
    \/ Keys(loaded_models) = {} /\ CallLoad(1, "A", "llm", FALSE)
    \/ /\ Keys(loaded_models) = {"A"}
       /\ CallLoad(1, "B", "llm", FALSE)
       /\ call'[1].low_memory
    \/ CallStatus(1)
    \/ LoaderThread(1)
    \/ LoadResume(1)

SpecScenario == Init /\ [][NextScenario]_vars

\* Loads by two callers, one of which calls cleanup, once, when the service shuts down.
NextCleanup ==
    \/ Tick
    \/ \E t \in Tasks, n \in Names, force \in BOOLEAN : CallLoad(t, n, "llm", force)
    \/ CallCleanup(NumTasks)
    \/ CleanupAcquire(NumTasks)
    \/ \E t \in Tasks : LoadAcquire(t)
    \/ \E t \in Tasks : LoaderThread(t)
    \/ \E t \in Tasks : LoadResume(t)

SpecCleanup == Init /\ [][NextCleanup]_vars

\* the requests issued where the decode loop is under study
GenRequests ==
    [prompt : {<<"a">>, <<"a", "b">>},
     model_name : {NoName, "B"},
     max_tokens : 1..MaxTokens,
     stop_sequences : {{}, {<<"b">>}, {<<"a", "b">>}}]

\* One caller that generates, with every request, and unloads.
NextGen ==
    \/ Tick
    \/ \E request \in GenRequests : CallGenerate(1, request)
    \/ \E n \in Names : CallUnload(1, n)
    \/ LoaderThread(1)
    \/ LoadResume(1)

SpecGen == Init /\ [][NextGen]_vars
\* ====================================================================== claims
\* task t took the step
Acts(t) == returned'.task = t \/ pc'[t] # pc[t]

\* the call of the step's task, with its locals as the step leaves them
Ran(t) == IF returned'.task = t THEN returned'.call ELSE call'[t]

\* in this step task t ran load_model from the lock on
RunsLoadBody(t) ==
    /\ Acts(t)
    /\ ~model_lock
    /\ pc[t] \in {"idle", "load_lock"}
    /\ Ran(t).op \in {"load", "generate", "embed"}
    /\ (pc[t] = "idle" /\ Ran(t).op # "load") => Ran(t).name \notin Keys(loaded_models)

TablesUnchanged ==
    /\ loaded_models' = loaded_models
    /\ tokenizers' = tokenizers
    /\ model_info' = model_info

\* load_model of task t found memory low with two or more models resident, chose the
\* victim and called unload_model for it
AtEviction(t) == pc[t] = "unload_lock" /\ call[t].op # "unload"

\* C1: a Load(X) of a non-resident X that finds available memory below the floor with
\* at least two models resident removes the resident model with the smallest
\* last_used, and after that removal the loader for X is invoked.
C1_EvictsThenLoads ==
    \A t \in Tasks :
        AtEviction(t) ~> (pc[t] = "load_exec" /\ call[t].victim \notin Keys(loaded_models))

\* C2: with a loader that terminates and fair scheduling, every call that was issued
\* eventually returns: the guard a call takes is released again, and no later Load or
\* Unload waits for it forever.
C2_EveryCallReturns ==
    \A t \in Tasks : (pc[t] # "idle") ~> (pc[t] = "idle")

C4_ResidentLoadOnlyRefreshes ==
    [][\A t \in Tasks :
         (/\ RunsLoadBody(t)
          /\ Ran(t).op = "load"
          /\ ~Ran(t).force_reload
          /\ Ran(t).name \in Keys(loaded_models))
         => /\ returned'.task = t
            /\ returned'.result = BoolResult(TRUE)
            /\ loader_calls' = loader_calls
            /\ ~model_lock'
            /\ loaded_models' = loaded_models
            /\ tokenizers' = tokenizers
            /\ Len(model_info') = Len(model_info)
            /\ \A i \in DOMAIN model_info :
                  IF model_info[i][1] = Ran(t).name
                  THEN model_info'[i] =
                          <<Ran(t).name, [model_info[i][2] EXCEPT !.last_used = now]>>
                  ELSE model_info'[i] = model_info[i]]_vars

\* a load of a resident identifier has returned true without a loader job, at a time
\* later than the identifier's load, with its use_count of 1 still there
C4_Witness ==
    /\ returned.call.op = "load"
    /\ ~returned.call.force_reload
    /\ returned.call.handle = 0
    /\ returned.result = BoolResult(TRUE)
    /\ now = 1
    /\ Get(model_info, returned.call.name).last_used = 1
    /\ Get(model_info, returned.call.name).use_count = 1

\* C5: a Load that finds available memory below the floor with fewer than two models
\* resident evicts nothing and goes on to the loader (which, for a category without a
\* loader, fails at once).
C5_NoEvictionBelowTwo ==
    [][\A t \in Tasks :
         (/\ RunsLoadBody(t)
          /\ Ran(t).low_memory
          /\ Len(model_info) <= 1)
         => /\ TablesUnchanged
            /\ IF Supported(Ran(t).model_type)
               THEN pc'[t] = "load_exec" /\ loader_calls' = loader_calls + 1
               ELSE returned'.task = t /\ returned'.result # BoolResult(TRUE)]_vars

\* a load is at the loader, having found memory low with one other model resident
C5_Witness ==
    \E t \in Tasks :
        /\ pc[t] = "load_exec"
        /\ call[t].low_memory
        /\ Len(loaded_models) = 1
        /\ call[t].name \notin Keys(loaded_models)

\* C7: Unload(X) of an identifier that is not resident returns false and leaves the
\* resident table (handles, tokenizers, ModelInfo) as it was.
C7_UnloadOfAbsentIsNoOp ==
    [][\A t \in Tasks :
         (/\ returned'.task = t
          /\ returned'.call.op = "unload"
          /\ returned'.call.name \notin Keys(loaded_models))
         => /\ returned'.result = BoolResult(FALSE)
            /\ TablesUnchanged]_vars

\* an unload has returned false while another model is resident
C7_Witness ==
    /\ returned.call.op = "unload"
    /\ returned.result = BoolResult(FALSE)
    /\ Len(loaded_models) >= 1

\* the step inserts into or removes from the resident table
TableChanged ==
    \/ loaded_models' # loaded_models
    \/ Keys(tokenizers') # Keys(tokenizers)
    \/ Keys(model_info') # Keys(model_info)

\* C8: every insertion into or removal from the resident table is made by the task
\* that holds the guard (it held it before the step, or takes the free guard in the
\* step), no other task holds it then, and at most one task holds it at any instant.
C8_MutationsUnderTheGuard ==
    [][/\ TableChanged =>
            \E t \in Tasks : /\ Acts(t)
                             /\ Holding(t) \/ ~model_lock
                             /\ \A u \in Tasks \ {t} : ~Holding(u)
       /\ Cardinality({t \in Tasks : Holding(t)'}) <= 1
       /\ model_lock' <=> \E t \in Tasks : Holding(t)']_vars

\* a load has stored its model while another task's unload waits for the guard
C8_Witness ==
    /\ returned.call.op = "load"
    /\ returned.call.handle > 0
    /\ returned.result = BoolResult(TRUE)
    /\ \E u \in Tasks : pc[u] = "unload_lock" /\ call[u].op = "unload"

\* C9: with a clock that never goes back, the last_used recorded for an identifier
\* never decreases: not on a refresh, not on a generation, not on a reload after an
\* unload.
C9_LastUsedMonotonic ==
    [][\A n \in Names :
         n \in Keys(model_info') => Get(model_info', n).last_used >= last_used_hist[n]]_vars

\* an identifier loaded before was loaded again, by the second loader job, later on
C9_Witness ==
    /\ returned.call.op = "load"
    /\ ~returned.call.force_reload
    /\ returned.call.handle = 2
    /\ returned.result = BoolResult(TRUE)
    /\ Len(loaded_models) = 1
    /\ last_used_hist[returned.call.name] = 1
    /\ now = 1

\* C6 (as the code has it): in the scenario, the Load("B") that finds memory low with
\* only "A" resident evicts nothing and goes to the loader; when it returns true "A"
\* and "B" are both resident, "A" with the handle it had, and a Status() from then on
\* lists "A" and "B".
C6_ScenarioKeepsA ==
    [][/\ (pc[1] = "idle" /\ pc'[1] # "idle" /\ call'[1].name = "B")
          => /\ pc'[1] = "load_exec"
             /\ call'[1].low_memory
             /\ TablesUnchanged
       /\ (returned'.call.name = "B" /\ returned'.result = BoolResult(TRUE))
          => /\ Keys(loaded_models') = {"A", "B"}
             /\ Get(loaded_models', "A") = Get(loaded_models, "A")
       /\ (returned'.call.op = "status" /\ "B" \in Keys(loaded_models))
          => returned'.result.loaded_models = <<"A", "B">>]_vars

\* Status() has answered after the Load("B") of the scenario returned true
C6_Witness ==
    /\ returned.call.op = "status"
    /\ "B" \in Keys(loaded_models)
    /\ returned.result.total_models = 2

\* C6 as stated: in the scenario "A" is evicted, "B" becomes resident and Status()
\* lists only "B".
C6_ScenarioEvictsA ==
    [][/\ (returned'.call.name = "B" /\ returned'.result = BoolResult(TRUE))
          => Keys(loaded_models') = {"B"}
       /\ (returned'.call.op = "status" /\ "B" \in Keys(loaded_models))
          => returned'.result.loaded_models = <<"B">>]_vars

\* the generation ended without the stopping criteria satisfied by what it produced
NoStopMatch(request, r) ==
    ~StoppingCriteriaHit(request.stop_sequences, Encode(request.prompt) \o r.generated_tokens)

\* C10: a Generate with max_tokens = N in which no stop sequence matches answers
\* with tokens_generated <= N, and with finish_reason "length" whenever exactly N
\* tokens were produced.
C10_LengthBound ==
    (/\ returned.call.op = "generate"
     /\ returned.result.kind = "response"
     /\ NoStopMatch(returned.call.request, returned.result))
    => /\ returned.result.tokens_generated <= returned.call.request.max_tokens
       /\ returned.result.tokens_generated = returned.call.request.max_tokens
             => returned.result.finish_reason = "length"

\* a generation with stop sequences none of which matched has produced all of its
\* max_tokens = MaxTokens tokens
C10_Witness ==
    /\ returned.call.op = "generate"
    /\ returned.result.kind = "response"
    /\ returned.call.request.stop_sequences # {}
    /\ NoStopMatch(returned.call.request, returned.result)
    /\ returned.call.request.max_tokens = MaxTokens
    /\ returned.result.tokens_generated = MaxTokens
    /\ returned.result.finish_reason = "length"

\* the call that returned in the step just taken is a generation that answered
GenerateAnswered == returned.call.op = "generate" /\ returned.result.kind = "response"

\* the decoded text of the first k generated tokens contains a stop sequence of the request
TextHasStop(request, g, k) ==
    \E s \in request.stop_sequences : Contains(Decode(SubSeq(g, 1, k), TRUE), s)

C12_StopIffShort ==
    GenerateAnswered
    => /\ returned.result.finish_reason \in {"stop", "length"}
       /\ returned.result.finish_reason = "stop"
             <=> returned.result.tokens_generated < returned.call.request.max_tokens

\* a generation without stop sequences has ended early, at the end-of-sequence token,
\* and answered "stop"
C12_Witness ==
    /\ GenerateAnswered
    /\ returned.call.request.stop_sequences = {}
    /\ returned.result.tokens_generated < returned.call.request.max_tokens
    /\ returned.result.generated_tokens[returned.result.tokens_generated] = EosToken
    /\ returned.result.finish_reason = "stop"

\* C12 as stated: finish_reason is "stop" if and only if a configured stop sequence
\* matched before max_tokens tokens were produced, and "length" in every other case.
C12_StopIffStopSequence ==
    GenerateAnswered
    => /\ returned.result.finish_reason \in {"stop", "length"}
       /\ returned.result.finish_reason = "stop"
             <=> /\ returned.result.tokens_generated < returned.call.request.max_tokens
                 /\ ~NoStopMatch(returned.call.request, returned.result)

\* the identifier a request names: its model, or the configured default when unset
Resolved(request) ==
    IF request.model_name # NoName THEN request.model_name ELSE DEFAULT_LLM_MODEL

\* C13: under any interleaving of the callers, a Generate against a resident model
\* completes at once, and its response names as model_used the identifier resolved
\* from its own request and was computed on the handle resident for that identifier.
C13_OwnModelUsed ==
    [][\A t \in Tasks :
         (/\ pc[t] = "idle"
          /\ Acts(t)
          /\ Ran(t).op = "generate"
          /\ Resolved(Ran(t).request) \in Keys(loaded_models))
         => /\ returned'.task = t
            /\ returned'.result.kind = "response"
                  => /\ returned'.result.model_used = Resolved(Ran(t).request)
                     /\ returned'.result.handle =
                           Get(loaded_models, Resolved(Ran(t).request)).handle]_vars

\* with two models resident, the second task's generation on "B" has answered after a
\* generation on the default model "A"
C13_Witness ==
    /\ returned.task = 2
    /\ GenerateAnswered
    /\ returned.result.model_used = "B"
    /\ {"A", "B"} \subseteq Keys(loaded_models)
    /\ Get(loaded_models, "A").handle # Get(loaded_models, "B").handle
    /\ Get(model_info, "A").use_count = 1

\* in this step the Load of task t finds that it has no model: its loader job has
\* failed, or its category has no loader
LoaderFailed(t) ==
    \/ pc[t] = "load_store" /\ ~call[t].loaded
    \/ /\ RunsLoadBody(t)
       /\ ~Supported(Ran(t).model_type)
       /\ Ran(t).name \notin Keys(loaded_models) \/ Ran(t).force_reload
       /\ pc'[t] # "unload_lock"

\* C14: a Load whose loader fails, or whose category has no loader, returns false, has
\* run at most one loader job (none is started again), adds no entry and neither
\* removes nor replaces an entry of the resident table, on the way to the loader or
\* after it.
C14_FailedLoadChangesNothing ==
    [][\A t \in Tasks :
         (Acts(t) /\ Ran(t).op = "load")
         => /\ pc'[t] \in {"load_exec", "load_store"} => TablesUnchanged
            /\ LoaderFailed(t)
                  => /\ returned'.task = t
                     /\ returned'.result = BoolResult(FALSE)
                     /\ TablesUnchanged
                     /\ loader_calls' = loader_calls
                     /\ Ran(t).handle \in {0, loader_calls}]_vars

\* a forced reload whose loader job, the second, failed has returned false, and the
\* identifier is resident still with the handle of the first job
C14_Witness ==
    /\ returned.call.op = "load"
    /\ returned.call.force_reload
    /\ returned.call.handle = 2
    /\ returned.result = BoolResult(FALSE)
    /\ Keys(loaded_models) = {returned.call.name}
    /\ Get(loaded_models, returned.call.name).handle = 1

\* C15: a Generate or Embed on an identifier that is not resident loads it first: it
\* answers nothing in the step it is issued, and an answer is computed only on a
\* resident identifier.  If that load returns false the call raises an error: no
\* response or vector is returned, and the resident table and every use_count and
\* last_used stay as they were.
C15_FailedOnDemandLoad ==
    [][\A t \in Tasks :
         (Acts(t) /\ Ran(t).op \in {"generate", "embed"})
         => /\ (pc[t] = "idle" /\ Ran(t).name \notin Keys(loaded_models))
                  => /\ returned'.task # t
                     /\ pc'[t] \in {"load_lock", "load_exec", "unload_lock"}
            /\ (returned'.task = t /\ returned'.result.kind \in {"response", "vector"})
                  => Ran(t).name \in Keys(loaded_models')
            /\ (pc[t] = "load_store" /\ ~call[t].loaded)
                  => /\ returned'.task = t
                     /\ returned'.result = ErrorResult("load")
                     /\ TablesUnchanged]_vars

\* a Generate on "B", not resident, has raised because its load returned false, while
\* the default model is resident with the one use it had
C15_Witness ==
    /\ returned.call.op = "generate"
    /\ returned.call.name = "B"
    /\ returned.call.handle > 0
    /\ returned.result = ErrorResult("load")
    /\ Keys(loaded_models) = {"A"}
    /\ Get(model_info, "A").use_count = 1

\* C16: every Generate that answers with a response and every Embed that answers with
\* a vector on identifier X raises X's use_count by exactly one (from zero when the
\* call itself loaded X) and sets X's last_used to the current time.
C16_EveryUseCounted ==
    [][\A t \in Tasks :
         (/\ returned'.task = t
          /\ returned'.call.op \in {"generate", "embed"}
          /\ returned'.result.kind \in {"response", "vector"})
         => LET n == returned'.call.name
                before == IF pc[t] = "load_store" THEN 0 ELSE Get(model_info, n).use_count
            IN  /\ Get(model_info', n).use_count = before + 1
                /\ Get(model_info', n).last_used = now]_vars

\* the tasks with a job in self.executor: loop.run_in_executor(self.executor, _load)
ExecutorJobs == {t \in Tasks : pc[t] = "load_exec"}

\* C17: the inference of every Generate and Embed that answers runs as a job of the
\* worker pool, apart from the event loop that takes the requests in, and at no
\* instant are more than ExecutorWorkers jobs of the pool in progress.
C17_InferenceInPool ==
    [][/\ \A t \in Tasks :
            (/\ returned'.task = t
             /\ returned'.call.op \in {"generate", "embed"}
             /\ returned'.result.kind \in {"response", "vector"})
            => t \in ExecutorJobs
       /\ Cardinality(ExecutorJobs') <= ExecutorWorkers]_vars

\* C18: while a Load of X is under way and holds the guard, a Generate or Embed on
\* another identifier Y that is resident starts and completes in one go: it waits
\* neither for the guard nor for the load, which stays where it is.
C18_ResidentInferenceNotBlocked ==
    [][\A t \in Tasks :
         (/\ pc[t] = "idle"
          /\ Acts(t)
          /\ Ran(t).op \in {"generate", "embed"}
          /\ Ran(t).name \in Keys(loaded_models)
          /\ \E u \in Tasks \ {t} : Holding(u) /\ call[u].name # Ran(t).name)
         => /\ returned'.task = t
            /\ returned'.result.kind \in {"response", "vector", "error"}
            /\ model_lock' = model_lock
            /\ \A u \in Tasks \ {t} : pc'[u] = pc[u] /\ call'[u] = call[u]]_vars

\* a Generate on the resident default model has answered while the other task's load of
\* another identifier is at its loader job, the guard held
C18_Witness ==
    /\ GenerateAnswered
    /\ returned.result.model_used = "A"
    /\ model_lock
    /\ \E u \in Tasks \ {returned.task} :
          /\ pc[u] = "load_exec"
          /\ call[u].op = "load"
          /\ call[u].name # "A"

\* the identifiers the step removes from the resident table
Removed == Keys(loaded_models) \ Keys(loaded_models')

\* C19: a Load (explicit or on demand) removes at most one resident model, the victim
\* its cleanup chose; it enters the cleanup's unload only at its start, before the
\* loader, and never comes back to it, whatever the memory is.
C19_AtMostOneEviction ==
    [][\A t \in Tasks :
         (Acts(t) /\ Ran(t).op \in {"load", "generate", "embed"})
         => /\ Cardinality(Removed) <= 1
            /\ Removed # {} => /\ AtEviction(t)
                               /\ Removed = {call[t].victim}
                               /\ pc'[t] = "load_exec"
            /\ (AtEviction(t)' /\ ~AtEviction(t)) => pc[t] \in {"idle", "load_lock"}
            /\ pc[t] \in {"load_exec", "load_store"} => ~AtEviction(t)']_vars

\* a Load has found memory low with two models resident and called the unload of the
\* one victim it chose, the model used least recently
C19_Witness ==
    \E t \in Tasks :
        /\ AtEviction(t)
        /\ call[t].low_memory
        /\ Len(model_info) = 2
        /\ call[t].victim = Oldest(model_info)
        /\ call[t].name \notin Keys(loaded_models)

\* C20: an identifier becomes resident only in the step in which a load of it (explicit
\* or on demand) stores the model its loader delivered, and stops being resident only
\* in the step in which an Unload of it returns true or a cleanup's unload removes it
\* as the victim; nothing else, a failed Load, a Generate, an Embed or a Status, changes
\* which identifiers are resident, and the three tables hold the same identifiers.
C20_ResidencyTransitions ==
    [][/\ \A n \in Names :
            /\ (n \notin Keys(loaded_models) /\ n \in Keys(loaded_models'))
                  => \E t \in Tasks :
                        /\ returned'.task = t
                        /\ pc[t] = "load_store"
                        /\ call[t].loaded
                        /\ call[t].name = n
                        /\ call[t].op = "load" => returned'.result = BoolResult(TRUE)
            /\ (n \in Keys(loaded_models) /\ n \notin Keys(loaded_models'))
                  => \E t \in Tasks :
                        \/ /\ returned'.task = t
                           /\ returned'.call.op = "unload"
                           /\ returned'.call.name = n
                           /\ returned'.result = BoolResult(TRUE)
                        \/ /\ AtEviction(t)
                           /\ Acts(t)
                           /\ call[t].victim = n
       /\ Keys(tokenizers') = Keys(loaded_models')
       /\ Keys(model_info') = Keys(loaded_models')]_vars

\* after two loader jobs an Unload has returned true and left the table empty again
C20_Witness ==
    /\ returned.call.op = "unload"
    /\ returned.result = BoolResult(TRUE)
    /\ returned.call.name \notin Keys(loaded_models)
    /\ loader_calls = 2
    /\ loaded_models = <<>>

\* C21: in every state another task can observe, the identifiers with a handle, those
\* with a tokenizer and those with a ModelInfo are the same; an Unload(X) of a resident
\* X returns true and removes X's handle, tokenizer and ModelInfo in one step, the
\* entries of the other identifiers staying as they are.
C21_TablesAgree ==
    [][/\ Keys(loaded_models') = Keys(tokenizers')
       /\ Keys(loaded_models') = Keys(model_info')
       /\ \A t \in Tasks :
            (/\ returned'.task = t
             /\ returned'.call.op = "unload"
             /\ returned'.call.name \in Keys(loaded_models))
            => /\ returned'.result = BoolResult(TRUE)
               /\ loaded_models' = DictDel(loaded_models, returned'.call.name)
               /\ tokenizers' = DictDel(tokenizers, returned'.call.name)
               /\ model_info' = DictDel(model_info, returned'.call.name)
               /\ returned'.call.name \notin
                     Keys(loaded_models') \cup Keys(tokenizers') \cup Keys(model_info')]_vars

\* an Unload has returned true and another model is resident still, in all three tables
C21_Witness ==
    /\ returned.call.op = "unload"
    /\ returned.result = BoolResult(TRUE)
    /\ Len(loaded_models) = 1
    /\ Len(tokenizers) = 1
    /\ Len(model_info) = 1
    /\ returned.call.name \notin Keys(model_info)

\* C22: whenever the cleanup chooses a victim (the table has at least two entries), the
\* victim is resident, its last_used is at most that of every resident identifier, and
\* no entry before it in table order has the same last_used.
C22_VictimIsLeastRecentlyUsed ==
    [][\A t \in Tasks :
         (AtEviction(t)' /\ ~AtEviction(t))
         => /\ Len(model_info) >= 2
            /\ \E i \in DOMAIN model_info :
                  /\ model_info[i][1] = call'[t].victim
                  /\ \A j \in DOMAIN model_info :
                        /\ model_info[i][2].last_used <= model_info[j][2].last_used
                        /\ j < i => model_info[i][2].last_used < model_info[j][2].last_used]_vars

\* the cleanup has chosen the first of two entries with the same last_used
C22_Witness ==
    \E t \in Tasks :
        /\ AtEviction(t)
        /\ Len(model_info) = 2
        /\ model_info[1][2].last_used = model_info[2][2].last_used
        /\ call[t].victim = model_info[1][1]
        /\ call[t].victim # model_info[2][1]

\* C23: a Generate that fails while it encodes or decodes leaves the use_count and the
\* last_used of its identifier as they were before the call (as the load left them,
\* when the call itself loaded the identifier).
C23_FailedGenerateNotCounted ==
    [][\A t \in Tasks :
         (/\ returned'.task = t
          /\ returned'.call.op = "generate"
          /\ returned'.result = ErrorResult("generation"))
         => LET n == returned'.call.name IN
            /\ Get(model_info', n).use_count =
                  IF pc[t] = "load_store" THEN 0 ELSE Get(model_info, n).use_count
            /\ Get(model_info', n).last_used =
                  IF pc[t] \in {"load_store", "load_lock"} THEN now
                  ELSE Get(model_info, n).last_used]_vars

\* a Generate has answered on an identifier that was removed from the resident table
\* before the Generate had finished with it
RemovedDuringUse ==
    /\ GenerateAnswered
    /\ returned.result.model_used \notin Keys(loaded_models) \cap Keys(model_info)

C25_KeyedByNameAndCategory ==
    [][\A t \in Tasks :
         (/\ returned'.task = t
          /\ returned'.call.op \in {"load", "generate", "embed"}
          /\ returned'.result \notin {BoolResult(FALSE), ErrorResult("load")})
         => /\ returned'.call.name \in Keys(model_info')
            /\ Get(model_info', returned'.call.name).model_type = returned'.call.model_type]_vars

C27_FailedReloadKeepsOld ==
    [][\A t \in Tasks :
         (/\ Acts(t)
          /\ Ran(t).op = "load"
          /\ Ran(t).force_reload
          /\ Ran(t).name \in Keys(loaded_models))
         => /\ pc'[t] \in {"load_exec", "load_store"} => TablesUnchanged
            /\ (pc[t] = "load_store" /\ ~call[t].loaded)
                  => /\ returned'.task = t
                     /\ returned'.result = BoolResult(FALSE)
                     /\ TablesUnchanged
                     /\ Get(loaded_models', Ran(t).name).handle < Ran(t).handle]_vars

\* the forced reload of a model that was used once has failed and returned false; the
\* model is resident with its first handle and its use_count of 1
C27_Witness ==
    /\ returned.call.op = "load"
    /\ returned.call.force_reload
    /\ returned.call.handle > 1
    /\ returned.result = BoolResult(FALSE)
    /\ returned.call.name \in Keys(loaded_models)
    /\ Get(loaded_models, returned.call.name).handle = 1
    /\ Get(tokenizers, returned.call.name).handle = 1
    /\ Get(model_info, returned.call.name).use_count = 1

\* C28: once cleanup has returned the resident table is empty and stays empty, whatever
\* Load was under way or is issued afterwards.
C28_EmptyAfterCleanup ==
    ExecutorShutdown => loaded_models = <<>>

\* C29: the stop-sequence check looks at the tokens generated in the call only: a stop
\* sequence that occurs in the prompt and not in the generated tokens does not end the
\* generation, which ends at max_tokens or at the end-of-sequence token.
C29_PromptNeverStops ==
    LET request == returned.call.request IN
    (/\ GenerateAnswered
     /\ \E s \in request.stop_sequences :
           /\ Contains(Decode(Encode(request.prompt), FALSE), s)
           /\ ~Contains(Decode(returned.result.generated_tokens, FALSE), s)
     /\ ~CustomStoppingCriteria(request.stop_sequences, returned.result.generated_tokens))
    => \/ returned.result.tokens_generated = request.max_tokens
       \/ returned.result.generated_tokens[returned.result.tokens_generated] = EosToken

\* C30: the endpoint DELETE /models/{model_name} answers 404 whenever the manager's
\* Unload returned false, and with the success message only when it returned true.
C30_UnloadEndpointAnswers404 ==
    (returned.call.op = "unload" /\ returned.result.kind = "bool")
    => LET response == UnloadEndpoint(returned.result.value) IN
       /\ ~returned.result.value => response.status = 404
       /\ response.kind = "return" <=> returned.result.value
====
